---------------------------- MODULE Spec2Model ----------------------------
(***************************************************************************)
(* A model of gmailextract/extractor.py: the GmailImageExtractor engine    *)
(* that extracts image attachments to a directory (extract), diffs the     *)
(* directory against its mapping (check_deletions) and replays the local   *)
(* deletions against the mailbox (sync).                                   *)
(*                                                                         *)
(* Strings are sequences of one-character strings, so that formatting and  *)
(* sanitizing are computed.  A Python dict is a sequence of entries with   *)
(* unique keys, iterated in insertion order.  limit = 0 stands for both    *)
(* None and 0, which every test of the code ("if self.limit",              *)
(* "self.limit > 0") treats alike.                                         *)
(***************************************************************************)
EXTENDS Integers, Sequences, FiniteSets, TLC

\* ------------------------------------------------------------- bounds
MaxMsgs == 2          \* messages in the initial mailbox (lifecycle runs)
MaxAtts == 2          \* attachments per message
MaxExtracts == 1      \* extract calls per run
MaxSyncs == 2         \* sync calls per run
MaxPagingMsgs == 4    \* messages in the initial mailbox (paging runs)
MaxBatch == 3         \* largest batch size and limit (paging runs)
MaxDeletes == 2       \* files the user deletes per run
MaxFaults == 1        \* file writes that fail per run (runs with write failures)
MaxAgainMsgs == 1     \* messages in the initial mailbox (runs that extract again)
MaxDriftMsgs == 1     \* messages in the initial mailbox (runs with remote changes)
MaxAgainExtracts == 2 \* extract calls per run (runs that extract again)

\* ------------------------------------------------- program constants
ATTACHMENT_MIMES == {"image/jpeg", "image/png", "image/gif"}

\* __init__'s defaults: limit=None (0 here), batch=10
DefaultLimit == 0

DefaultBatch == 10

\* ------------------------------------------------------ input alphabets
Subjects == { <<"s">>, <<"s", "/">> }

\* The attachments a message of the mailbox may carry: two images of
\* different names and bytes, and a file that is no image with the name and
\* the bytes of the first
Attachment ==
    { [name |-> <<"a">>, type |-> "image/png",       body |-> 1],
      [name |-> <<"b">>, type |-> "image/jpeg",      body |-> 2],
      [name |-> <<"a">>, type |-> "application/pdf", body |-> 1] }

\* MIME types that name an image but are none of ATTACHMENT_MIMES
NearMimes == {"IMAGE/PNG", "image/png; charset=binary", "image/bmp"}

\* Attachments for the runs on the type filter: an allowed image, one file
\* of each near type, and a file that is no image
MimeAttachment ==
    { [name |-> <<"a">>, type |-> "image/png", body |-> 1],
      [name |-> <<"b">>, type |-> "application/pdf", body |-> 2] }
    \cup { [name |-> <<"b">>, type |-> t, body |-> 2] : t \in NearMimes }

\* ------------------------------------------------------------ helpers
RECURSIVE SeqsUpTo(_, _)
SeqsUpTo(S, n) ==
    IF n = 0 THEN { <<>> }
    ELSE LET shorter == SeqsUpTo(S, n - 1)
         IN  shorter \cup { Append(s, x) : s \in { t \in shorter : Len(t) = n - 1 }, x \in S }

Min(a, b) == IF a < b THEN a ELSE b

Range(s) == { s[i] : i \in 1..Len(s) }

\* ----------------------------------------------- consumed interfaces
\* att.sha1(): the digest of the attachment's bytes (injective on bodies)
sha1(att) == 40 + att.body

DigitChars == <<"0", "1", "2", "3", "4", "5", "6", "7", "8", "9">>

RECURSIVE Decimal(_)
Decimal(k) ==
    IF k < 10 THEN << DigitChars[k + 1] >>
    ELSE Decimal(k \div 10) \o << DigitChars[(k % 10) + 1] >>

ValidChars == { "a", "b", "s", "t", "-", "_", ".", "(", ")", " " } \cup Range(DigitChars)

IsValidChar(c) == c \in ValidChars

\* fs.sanatize_filename: drops every character unsafe in a file name
sanatize_filename(name) == SelectSeq(name, IsValidChar)

Suffixed(name, k) == IF k = 0 THEN name ELSE name \o <<" ", "(">> \o Decimal(k) \o <<")">>

\* fs.unique_filename: the name itself, or the name with the first
\* disambiguating suffix that no file of the directory carries
unique_filename(dir, name) ==
    LET k == CHOOSE i \in 0..Cardinality(dir) :
                 /\ Suffixed(name, i) \notin dir
                 /\ \A j \in 0..(i - 1) : Suffixed(name, j) \in dir
    IN  Suffixed(name, k)

\* u"{0} - {1}".format(msg.subject, att.name())
poss_fname(subject, attname) == subject \o <<" ", "-", " ">> \o attname

\* A dict as a sequence of entries [key, ...] with unique keys
DictKeys(d) == { d[i].key : i \in 1..Len(d) }

DictGet(d, k) == d[CHOOSE i \in 1..Len(d) : d[i].key = k]

\* d[k] = entry: replaces the entry of an existing key, else adds one
DictSet(d, entry) ==
    IF entry.key \in DictKeys(d)
    THEN [i \in 1..Len(d) |-> IF d[i].key = entry.key THEN entry ELSE d[i]]
    ELSE Append(d, entry)

\* One entry of the call log: a callback event or an operation issued to
\* the mailbox or the file system
Ev(op, gid, x, y, s, t) == [op |-> op, gid |-> gid, x |-> x, y |-> y, s |-> s, t |-> t]

\* ------------------------------------------------------------- state
VARIABLES
    pc,            \* "new", "failed", "idle", "extract_page", "extract_msgs", "sync"
    dest_ok,       \* dest is a directory the process may write to
    limit, batch, replace,
    connected,     \* connect() has set self.mail, self.trash_folder, self.inbox
    inbox,         \* the account's all-mail mailbox: messages [id, subject, atts]
    trash,         \* the trash folder's messages
    next_id,       \* the next message id the mailbox assigns
    files,         \* names of the files in dest
    faults,        \* write failures the file system has yet to produce
    written,       \* names of the files extract ever wrote
    mapping, has_mapping,
    to_delete, to_delete_subjects, num_deletions, has_plan,
    attachment_count, num_messages, offset, per_page, hit_limit,
    page,          \* the messages of the current page not yet processed
    todo,          \* the keys of to_delete not yet processed by sync
    num_msg_changed, num_attch_removed,
    call,          \* the operation running or last run ("unlink": the user's deletion)
    err,           \* "" or the error the last operation raised
    ret,           \* the last operation's return value
    log,           \* events and operations of the running or last operation
    removes,       \* <<message id, attachment index>> -> remove operations issued so far
    commits,       \* <<message id, sync call>> of every save or save_copy issued so far
    late_deletes,  \* files deleted after a sync committed their message
    label,         \* sync's label argument
    extracts_left, syncs_left, deletes_left   \* calls and deletions the run may still make

extractVars == <<attachment_count, num_messages, offset, per_page, hit_limit, page>>
syncVars    == <<todo, num_msg_changed, num_attch_removed, label>>
planVars    == <<to_delete, to_delete_subjects, num_deletions, has_plan>>
mailVars    == <<inbox, trash, next_id>>
confVars    == <<dest_ok, limit, batch, replace>>

countVars   == <<extracts_left, syncs_left, deletes_left>>

vars == <<pc, confVars, connected, mailVars, files, faults, written, mapping, has_mapping,
          planVars, extractVars, syncVars, call, err, ret, log, removes, commits, late_deletes, countVars>>

\* ----------------------------------------------------------- mailbox
Message(id) == [id : {id}, subject : Subjects, atts : SeqsUpTo(Attachment, MaxAtts) \ {<<>>}]

\* Mailboxes of up to n messages; a message's id is its position
RECURSIVE Mailboxes(_)
Mailboxes(n) ==
    IF n = 0 THEN { <<>> }
    ELSE LET shorter == Mailboxes(n - 1)
         IN  shorter \cup { Append(b, m) : b \in { c \in shorter : Len(c) = n - 1 }, m \in Message(n) }

\* Mailboxes of the paging runs
\* one file named "a", or the image "a" followed by images "b"
PagingAtts ==
    { s \in SeqsUpTo(Attachment, MaxAtts) \ {<<>>} :
        /\ s[1].name = <<"a">>
        /\ Len(s) > 1 => /\ s[1].type = "image/png"
                         /\ \A i \in 2..Len(s) : s[i].name = <<"b">> }

SimpleMessage(id) == [id : {id}, subject : {<<"s">>}, atts : PagingAtts]

RECURSIVE SimpleMailboxes(_)
SimpleMailboxes(n) ==
    IF n = 0 THEN { <<>> }
    ELSE LET shorter == SimpleMailboxes(n - 1)
         IN  shorter \cup { Append(b, m) : b \in { c \in shorter : Len(c) = n - 1 },
                                           m \in SimpleMessage(n) }

\* Mailboxes of the runs on the type filter
MimeMessage(id) == [id : {id}, subject : {<<"s">>}, atts : SeqsUpTo(MimeAttachment, MaxAtts) \ {<<>>}]

RECURSIVE MimeMailboxes(_)
MimeMailboxes(n) ==
    IF n = 0 THEN { <<>> }
    ELSE LET shorter == MimeMailboxes(n - 1)
         IN  shorter \cup { Append(b, m) : b \in { c \in shorter : Len(c) = n - 1 },
                                           m \in MimeMessage(n) }

HasAttachment(m) == Len(m.atts) > 0

\* inbox.search("has:attachment", full=True, limit=l, offset=o)
search(box, l, o) ==
    LET hits == SelectSeq(box, HasAttachment)
    IN  SubSeq(hits, o + 1, Min(o + l, Len(hits)))

InitCommon ==
    /\ pc = "new"
    /\ connected = FALSE
    /\ trash = <<>>
    /\ next_id = Len(inbox) + 1
    /\ files = {}
    /\ written = {}
    /\ mapping = <<>> /\ has_mapping = FALSE
    /\ to_delete = <<>> /\ to_delete_subjects = <<>> /\ num_deletions = 0 /\ has_plan = FALSE
    /\ attachment_count = 0 /\ num_messages = 0 /\ offset = 0 /\ per_page = 0
    /\ hit_limit = FALSE /\ page = <<>>
    /\ todo = <<>> /\ num_msg_changed = 0 /\ num_attch_removed = 0
    /\ call = "" /\ err = "" /\ ret = <<>> /\ log = <<>>
    /\ removes = <<>>
    /\ commits = {}
    /\ late_deletes = {}
    /\ label = <<>>
    /\ syncs_left = MaxSyncs /\ deletes_left = MaxDeletes

\* The engine's whole life, with __init__'s default limit and batch
Init ==
    /\ dest_ok \in BOOLEAN
    /\ limit = DefaultLimit
    /\ batch = DefaultBatch
    /\ replace \in BOOLEAN
    /\ inbox \in Mailboxes(MaxMsgs)
    /\ faults = 0
    /\ extracts_left = MaxExtracts
    /\ InitCommon

\* extract alone, over every limit and batch size
InitPaging ==
    /\ dest_ok = TRUE
    /\ limit \in 0..MaxBatch
    /\ batch \in 1..MaxBatch
    /\ replace = FALSE
    /\ inbox \in SimpleMailboxes(MaxPagingMsgs)
    /\ faults = 0
    /\ extracts_left = MaxExtracts
    /\ InitCommon

\* extract alone, on a file system that may fail a write
InitFaults ==
    /\ dest_ok = TRUE
    /\ limit = DefaultLimit
    /\ batch = DefaultBatch
    /\ replace = FALSE
    /\ inbox \in Mailboxes(MaxMsgs)
    /\ faults = MaxFaults
    /\ extracts_left = MaxExtracts
    /\ InitCommon

\* extract alone, over attachments of allowed, near and other types
InitMimes ==
    /\ dest_ok = TRUE
    /\ limit = DefaultLimit
    /\ batch = DefaultBatch
    /\ replace = FALSE
    /\ inbox \in MimeMailboxes(MaxMsgs)
    /\ faults = 0
    /\ extracts_left = MaxExtracts
    /\ InitCommon

\* The engine's whole life with extract called more than once
InitAgain ==
    /\ dest_ok = TRUE
    /\ limit = DefaultLimit
    /\ batch = DefaultBatch
    /\ replace \in BOOLEAN
    /\ inbox \in Mailboxes(MaxAgainMsgs)
    /\ faults = 0
    /\ extracts_left = MaxAgainExtracts
    /\ InitCommon

\* The engine's whole life on a mailbox that another client changes
InitDrift ==
    /\ dest_ok = TRUE
    /\ limit = DefaultLimit
    /\ batch = DefaultBatch
    /\ replace \in BOOLEAN
    /\ inbox \in Mailboxes(MaxDriftMsgs)
    /\ faults = 0
    /\ extracts_left = MaxExtracts
    /\ InitCommon

\* ------------------------------------------------ __init__, connect
\* validate_path accepting every dest
validate_path_Always == TRUE

\* validate_path(self.dest): os.path.isdir(path) and os.access(path, os.W_OK)
validate_path == dest_ok

\* GmailImageExtractor(dest, email, password, limit, batch, replace)
Construct ==
    /\ pc = "new"
    /\ call' = "__init__"
    /\ IF validate_path
       THEN pc' = "idle" /\ err' = ""
       ELSE pc' = "failed" /\ err' = "ValueError"
    /\ UNCHANGED <<confVars, connected, mailVars, files, faults, written, mapping, has_mapping,
                   planVars, extractVars, syncVars, ret, log, removes, commits, late_deletes, countVars>>

\* connect(): ok is whether the account's trash mailbox could be opened
Connect ==
    /\ pc = "idle"
    /\ ~connected
    /\ \E ok \in BOOLEAN :
         /\ connected' = ok
         /\ ret' = <<ok>>
    /\ call' = "connect"
    /\ err' = ""
    /\ log' = << Ev("connect", 0, 0, 0, <<>>, <<>>) >>
    /\ UNCHANGED <<pc, confVars, mailVars, files, faults, written, mapping, has_mapping,
                   planVars, extractVars, syncVars, removes, commits, late_deletes, countVars>>

\* ------------------------------------------------------------ extract
\* PerPage ignoring the limit
PerPage_Batch(b, l) == b

\* per_page = min(self.batch, self.limit) if self.limit else self.batch
PerPage(b, l) == IF l # 0 THEN Min(b, l) ELSE b

\* IsImage taking every type that names an image
IsImage_Near(att) == att.type \in ATTACHMENT_MIMES \cup NearMimes

\* if att.type in ATTACHMENT_MIMES
IsImage(att) == att.type \in ATTACHMENT_MIMES

\* HitLimit one message late
HitLimit_Late(l, n) == l > 0 /\ n > l

\* if self.limit > 0 and num_messages >= self.limit
HitLimit(l, n) == l > 0 /\ n >= l

\* self.mapping[fname] = msg.gmail_id, att.sha1(), msg.subject
MappingEntry(fname, msg, att) ==
    [key |-> fname, gmail_id |-> msg.id, hash |-> sha1(att), subject |-> msg.subject]

\* DiskName without line 146's unique_filename
DiskName_NotUnique(dir, msg, att) ==
    sanatize_filename(poss_fname(msg.subject, att.name))

\* the name the attachment is written under
DiskName(dir, msg, att) ==
    unique_filename(dir, sanatize_filename(poss_fname(msg.subject, att.name)))

\* ExtractAttachments going on with the next attachment after a write
\* that failed
RECURSIVE ExtractAttachments_Swallow(_, _, _, _, _)
ExtractAttachments_Swallow(msg, i, failAt, created, st) ==
    IF i > Len(msg.atts) THEN st
    ELSE LET att == msg.atts[i]
         IN  IF ~IsImage(att) THEN ExtractAttachments_Swallow(msg, i + 1, failAt, created, st)
             ELSE LET fname == DiskName(st.files, msg, att)
                      log1  == Append(st.log, Ev("cb_image", 0, 0, 0, att.name, fname))
                  IN  IF failAt = i
                      THEN ExtractAttachments_Swallow(msg, i + 1, failAt, created,
                             [st EXCEPT !.log = log1,
                                        !.failed = TRUE,
                                        !.files = IF created THEN @ \cup {fname} ELSE @])
                      ELSE ExtractAttachments_Swallow(msg, i + 1, failAt, created,
                             [st EXCEPT
                                !.log = Append(log1, Ev("write", msg.id, sha1(att), i, <<>>, fname)),
                                !.files = @ \cup {fname},
                                !.written = @ \cup {fname},
                                !.mapping = DictSet(@, MappingEntry(fname, msg, att)),
                                !.count = @ + 1])

\* The loop over msg.attachments() from attachment i on.  st holds the
\* directory, the mapping, the count and the log; failAt is the index of the
\* attachment whose file cannot be written (0: none), and created whether
\* that file was opened before the write failed.
RECURSIVE ExtractAttachments(_, _, _, _, _)
ExtractAttachments(msg, i, failAt, created, st) ==
    IF i > Len(msg.atts) THEN st
    ELSE LET att == msg.atts[i]
         IN  IF ~IsImage(att) THEN ExtractAttachments(msg, i + 1, failAt, created, st)
             ELSE LET fname == DiskName(st.files, msg, att)
                      log1  == Append(st.log, Ev("cb_image", 0, 0, 0, att.name, fname))
                  IN  IF failAt = i
                      THEN [st EXCEPT !.log = log1,
                                      !.failed = TRUE,
                                      !.files = IF created THEN @ \cup {fname} ELSE @]
                      ELSE ExtractAttachments(msg, i + 1, failAt, created,
                             [st EXCEPT
                                !.log = Append(log1, Ev("write", msg.id, sha1(att), i, <<>>, fname)),
                                !.files = @ \cup {fname},
                                !.written = @ \cup {fname},
                                !.mapping = DictSet(@, MappingEntry(fname, msg, att)),
                                !.count = @ + 1])

\* IsEmptyPage never true: the loop has no break on an empty page
IsEmptyPage_Never(messages) == FALSE

\* lines 139-140: if len(messages) == 0: break
IsEmptyPage(messages) == Len(messages) = 0

\* NextOffset advancing by one message
NextOffset_One(o, p) == o + 1

\* line 159: offset += per_page
NextOffset(o, p) == o + p

\* MessageEvent with a 0-based index
MessageEvent_ZeroBased(o) == Ev("cb_message", 0, o, 0, <<>>, <<>>)

\* line 136: _cb('message', offset + 1)
MessageEvent(o) == Ev("cb_message", 0, o + 1, 0, <<>>, <<>>)

\* extract(), lines 124-134: the locals and a fresh mapping
ExtractBegin ==
    /\ pc = "idle"
    /\ extracts_left > 0
    /\ extracts_left' = extracts_left - 1
    /\ attachment_count' = 0
    /\ num_messages' = 0
    /\ offset' = 0
    /\ per_page' = PerPage(batch, limit)
    /\ mapping' = <<>>
    /\ has_mapping' = TRUE
    /\ hit_limit' = FALSE
    /\ page' = <<>>
    /\ pc' = "extract_page"
    /\ call' = "extract"
    /\ err' = ""
    /\ ret' = <<>>
    /\ log' = <<>>
    /\ UNCHANGED <<confVars, connected, mailVars, files, faults, written, planVars, syncVars,
                   removes, commits, late_deletes, syncs_left, deletes_left>>

\* One turn of the while loop up to the page's first message: the message
\* event, the search, and the return when the page is empty
ExtractSearch ==
    /\ pc = "extract_page"
    /\ LET log1 == Append(log, MessageEvent(offset))
           messages == search(inbox, per_page, offset)
       IN  IF ~connected
           THEN /\ log' = log1
                /\ err' = "AttributeError"
                /\ pc' = "idle"
                /\ UNCHANGED <<page, ret>>
           ELSE /\ log' = Append(log1, Ev("search", 0, per_page, offset, <<>>, <<>>))
                /\ IF IsEmptyPage(messages)
                   THEN pc' = "idle" /\ ret' = <<attachment_count>> /\ page' = <<>>
                   ELSE pc' = "extract_msgs" /\ page' = messages /\ UNCHANGED ret
                /\ UNCHANGED err
    /\ UNCHANGED <<confVars, connected, mailVars, files, faults, written, mapping, has_mapping,
                   planVars, attachment_count, num_messages, offset, per_page, hit_limit,
                   syncVars, call, removes, commits, late_deletes, countVars>>

\* One message of the page: its attachments, then the limit test; after
\* the page's last message the offset advances
ExtractMessage ==
    /\ pc = "extract_msgs"
    /\ page # <<>>
    /\ LET msg == Head(page) IN
       \E failAt \in 0..Len(msg.atts), created \in BOOLEAN :
         /\ failAt = 0 => ~created
         /\ failAt > 0 => faults > 0
         /\ faults' = IF failAt > 0 THEN faults - 1 ELSE faults
         /\ failAt > 0 => IsImage(msg.atts[failAt])
         /\ LET st == ExtractAttachments(msg, 1, failAt, created,
                        [files |-> files, written |-> written, mapping |-> mapping,
                         count |-> attachment_count, log |-> log, failed |-> FALSE])
                n  == num_messages + 1
            IN  /\ files' = st.files
                /\ written' = st.written
                /\ mapping' = st.mapping
                /\ attachment_count' = st.count
                /\ log' = st.log
                /\ IF st.failed
                   THEN /\ err' = "IOError"
                        /\ pc' = "idle"
                        /\ UNCHANGED <<num_messages, hit_limit, offset, page, ret>>
                   ELSE /\ num_messages' = n
                        /\ UNCHANGED err
                        /\ IF HitLimit(limit, n)
                           THEN /\ hit_limit' = TRUE
                                /\ offset' = NextOffset(offset, per_page)
                                /\ pc' = "idle"
                                /\ ret' = <<st.count>>
                                /\ UNCHANGED page
                           ELSE /\ UNCHANGED <<hit_limit, ret>>
                                /\ page' = Tail(page)
                                /\ IF Tail(page) = <<>>
                                   THEN offset' = NextOffset(offset, per_page) /\ pc' = "extract_page"
                                   ELSE UNCHANGED <<offset, pc>>
    /\ UNCHANGED <<confVars, connected, mailVars, has_mapping, planVars, per_page,
                   syncVars, call, removes, commits, late_deletes, countVars>>

\* ------------------------------------------------- the user's deletions
\* The user removes one extracted file from dest between two calls
DeleteFile ==
    /\ pc = "idle"
    /\ deletes_left > 0
    /\ \E f \in files :
         /\ files' = files \ {f}
         /\ late_deletes' =
              IF \E i \in 1..Len(mapping), c \in commits :
                    mapping[i].key = f /\ mapping[i].gmail_id = c[1]
              THEN late_deletes \cup {f} ELSE late_deletes
    /\ deletes_left' = deletes_left - 1
    /\ call' = "unlink"
    /\ UNCHANGED <<pc, confVars, connected, mailVars, faults, written, mapping, has_mapping,
                   planVars, extractVars, syncVars, err, ret, log, removes, commits,
                   extracts_left, syncs_left>>

\* a message's attachments once the attachments in gone were removed from it
Without(msg, gone) ==
    LET keep(i) == i \notin gone
        RECURSIVE Kept(_)
        Kept(i) == IF i > Len(msg.atts) THEN <<>>
                   ELSE (IF keep(i) THEN << msg.atts[i] >> ELSE <<>>) \o Kept(i + 1)
    IN  Kept(1)

\* ------------------------------------------------- the remote's changes
\* Between two calls a message of the mailbox loses one attachment and
\* keeps its id: the remote object changed between extraction and sync
RemoteDrop ==
    /\ pc = "idle"
    /\ \E k \in 1..Len(inbox) :
         \E i \in 1..Len(inbox[k].atts) :
            inbox' = [inbox EXCEPT ![k].atts = Without(inbox[k], {i})]
    /\ call' = "remote"
    /\ UNCHANGED <<pc, confVars, connected, trash, next_id, files, faults, written, mapping,
                   has_mapping, planVars, extractVars, syncVars, err, ret, log, removes,
                   commits, late_deletes, countVars>>

\* ---------------------------------------------------- check_deletions
\* InitialPlan without the reset of lines 178-180
InitialPlan_Kept ==
    [to_delete |-> to_delete, subjects |-> to_delete_subjects, num |-> num_deletions]

\* lines 178-180: the plan before the loop
InitialPlan == [to_delete |-> <<>>, subjects |-> <<>>, num |-> 0]

\* not os.path.isfile(os.path.join(self.dest, a_name))
IsDeleted(dir, a_name) == a_name \notin dir

\* lines 183-187: one deleted file's entry joins the plan
AddDeletion(plan, entry) ==
    LET known == entry.gmail_id \in DictKeys(plan.to_delete)
        hashes == IF known THEN DictGet(plan.to_delete, entry.gmail_id).hashes ELSE <<>>
    IN  [to_delete |-> DictSet(plan.to_delete,
                               [key |-> entry.gmail_id, hashes |-> Append(hashes, entry.hash)]),
         subjects  |-> IF known THEN plan.subjects
                       ELSE DictSet(plan.subjects,
                                    [key |-> entry.gmail_id, subject |-> entry.subject]),
         num       |-> plan.num + 1]

\* lines 181-187: the loop over self.mapping.items() from entry i on
RECURSIVE CheckLoop(_, _, _, _)
CheckLoop(m, i, dir, plan) ==
    IF i > Len(m) THEN plan
    ELSE CheckLoop(m, i + 1, dir,
                   IF IsDeleted(dir, m[i].key) THEN AddDeletion(plan, m[i]) ELSE plan)

\* check_deletions() of an engine that has a mapping
check_deletions(m, dir) == CheckLoop(m, 1, dir, InitialPlan)

\* check_deletions() called by the user.  Without a mapping the loop's
\* first line raises, after the three fields were reset.
CheckDeletions ==
    /\ pc = "idle"
    /\ call' = "check_deletions"
    /\ log' = <<>>
    /\ has_plan' = TRUE
    /\ IF has_mapping
       THEN LET plan == check_deletions(mapping, files)
            IN  /\ to_delete' = plan.to_delete
                /\ to_delete_subjects' = plan.subjects
                /\ num_deletions' = plan.num
                /\ ret' = <<plan.num>>
                /\ err' = ""
       ELSE /\ to_delete' = InitialPlan.to_delete
            /\ to_delete_subjects' = InitialPlan.subjects
            /\ num_deletions' = InitialPlan.num
            /\ ret' = <<>>
            /\ err' = "AttributeError"
    /\ UNCHANGED <<pc, confVars, connected, mailVars, files, faults, written, mapping, has_mapping,
                   extractVars, syncVars, removes, commits, late_deletes, countVars>>

\* --------------------------------------------------------------- sync
\* sync's label argument: its default
Labels == { <<"Images redacted">> }

\* inbox.fetch_gm_id(gmail_id, full=True): the message, or <<>> for None
fetch_gm_id(box, gmail_id) ==
    LET hits == SelectSeq(box, LAMBDA m : m.id = gmail_id)
    IN  IF hits = <<>> THEN <<>> ELSE << hits[1] >>

\* attach_hashes[h] of {a.sha1(): a for a in msg.attachments()}: the index
\* of the last attachment with that hash, 0 when the key is missing
AttachHashes(msg, h) ==
    LET idx == { i \in 1..Len(msg.atts) : sha1(msg.atts[i]) = h }
    IN  IF idx = {} THEN 0 ELSE CHOOSE i \in idx : \A j \in idx : j <= i

\* Counted counting every remove(), whatever it returned
Counted_Always(ok, n) == n + 1

\* lines 240-242: the counters after a remove() that returned ok
Counted(ok, n) == IF ok THEN n + 1 ELSE n

CountUp(f, k) == IF k \in DOMAIN f THEN [f EXCEPT ![k] = @ + 1] ELSE f @@ (k :> 1)

\* RemoveLoop skipping a hash the fetched message does not have
RECURSIVE RemoveLoop_Skip(_, _, _, _, _)
RemoveLoop_Skip(msg, hashes, j, oks, st) ==
    IF j > Len(hashes) THEN st
    ELSE LET i == AttachHashes(msg, hashes[j])
         IN  IF i = 0 THEN RemoveLoop_Skip(msg, hashes, j + 1, oks, st)
             ELSE RemoveLoop_Skip(msg, hashes, j + 1, oks,
                    [st EXCEPT
                       !.log = Append(@, Ev("remove", msg.id, i, IF oks[j] THEN 1 ELSE 0,
                                            <<>>, <<>>)),
                       !.removes = CountUp(@, <<msg.id, i>>),
                       !.gone = IF oks[j] THEN @ \cup {i} ELSE @,
                       !.removed_attachments = Counted(oks[j], @),
                       !.num_attch_removed = Counted(oks[j], @)])

\* lines 238-242: the loop over attch_to_remove from hash j on; oks[j] is
\* what the j-th remove() returns.  st holds the indexes removed from the
\* fetched message, the two counters, the log and the remove operations.
RECURSIVE RemoveLoop(_, _, _, _, _)
RemoveLoop(msg, hashes, j, oks, st) ==
    IF j > Len(hashes) THEN st
    ELSE LET i == AttachHashes(msg, hashes[j])
         IN  IF i = 0 THEN [st EXCEPT !.keyerror = TRUE]
             ELSE RemoveLoop(msg, hashes, j + 1, oks,
                    [st EXCEPT
                       !.log = Append(@, Ev("remove", msg.id, i, IF oks[j] THEN 1 ELSE 0,
                                            <<>>, <<>>)),
                       !.removes = CountUp(@, <<msg.id, i>>),
                       !.gone = IF oks[j] THEN @ \cup {i} ELSE @,
                       !.removed_attachments = Counted(oks[j], @),
                       !.num_attch_removed = Counted(oks[j], @)])

\* CommitOp taking the else branch always
CommitOp_Copy(rep) == "save_copy"

\* self.trash_folder.name
TrashName == <<"[Gmail]/Trash">>

\* if self.replace: msg.save(trash_folder.name, safe_label=label)
\* else: msg.save_copy(label)
CommitOp(rep) == IF rep THEN "save" ELSE "save_copy"

\* HasNumDeletions never raising
HasNumDeletions_Always(hp) == TRUE

\* lines 220-222: whether reading self.num_deletions succeeds
HasNumDeletions(hp) == hp

\* FetchEvent without the number of pending hashes
FetchEvent_NoCount(msg_sbj, attch_to_remove) == Ev("cb_fetch", 0, 0, 0, msg_sbj, <<>>)

\* line 234: _cb('fetch', msg_sbj, len(attch_to_remove))
FetchEvent(msg_sbj, attch_to_remove) ==
    Ev("cb_fetch", 0, Len(attch_to_remove), 0, msg_sbj, <<>>)

\* lines 220-229: the plan is computed when no num_deletions is set yet
SyncBegin ==
    /\ pc = "idle"
    /\ syncs_left > 0
    /\ syncs_left' = syncs_left - 1
    /\ call' = "sync"
    /\ ret' = <<>>
    /\ \E l \in Labels : label' = l
    /\ num_msg_changed' = 0
    /\ num_attch_removed' = 0
    /\ has_plan' = TRUE
    /\ IF HasNumDeletions(has_plan)
       THEN /\ UNCHANGED <<to_delete, to_delete_subjects, num_deletions>>
            /\ log' = <<>>
            /\ err' = ""
            /\ pc' = "sync"
            /\ todo' = [i \in 1..Len(to_delete) |-> to_delete[i].key]
       ELSE /\ log' = << Ev("check_deletions", 0, 0, 0, <<>>, <<>>) >>
            /\ IF has_mapping
               THEN LET plan == check_deletions(mapping, files)
                    IN  /\ to_delete' = plan.to_delete
                        /\ to_delete_subjects' = plan.subjects
                        /\ num_deletions' = plan.num
                        /\ err' = ""
                        /\ pc' = "sync"
                        /\ todo' = [i \in 1..Len(plan.to_delete) |-> plan.to_delete[i].key]
               ELSE /\ to_delete' = InitialPlan.to_delete
                    /\ to_delete_subjects' = InitialPlan.subjects
                    /\ num_deletions' = InitialPlan.num
                    /\ err' = "AttributeError"
                    /\ pc' = "idle"
                    /\ todo' = <<>>
    /\ UNCHANGED <<confVars, connected, mailVars, files, faults, written, mapping, has_mapping,
                   extractVars, removes, commits, late_deletes, extracts_left, deletes_left>>

\* lines 231-250: one entry of the plan
SyncGroup ==
    /\ pc = "sync"
    /\ todo # <<>>
    /\ LET gmail_id == Head(todo)
           attch_to_remove == DictGet(to_delete, gmail_id).hashes
           msg_sbj == DictGet(to_delete_subjects, gmail_id).subject
           log1 == Append(log, FetchEvent(msg_sbj, attch_to_remove))
           fetched == fetch_gm_id(inbox, gmail_id)
           log2 == Append(log1, Ev("fetch", gmail_id, 0, 0, <<>>, <<>>))
       IN  IF ~connected
           THEN /\ log' = log1
                /\ err' = "AttributeError"
                /\ pc' = "idle"
                /\ UNCHANGED <<mailVars, todo, num_msg_changed, num_attch_removed, removes, commits>>
           ELSE IF fetched = <<>>
           THEN /\ log' = log2
                /\ err' = "AttributeError"
                /\ pc' = "idle"
                /\ UNCHANGED <<mailVars, todo, num_msg_changed, num_attch_removed, removes, commits>>
           ELSE \E oks \in [1..Len(attch_to_remove) -> BOOLEAN] :
                LET msg == fetched[1]
                    st == RemoveLoop(msg, attch_to_remove, 1, oks,
                            [log |-> log2, removes |-> removes, gone |-> {},
                             removed_attachments |-> 0,
                             num_attch_removed |-> num_attch_removed,
                             keyerror |-> FALSE])
                    changed == [id |-> next_id, subject |-> msg.subject,
                                atts |-> Without(msg, st.gone)]
                IN  /\ removes' = st.removes
                    /\ num_attch_removed' = st.num_attch_removed
                    /\ IF st.keyerror
                       THEN /\ log' = st.log
                            /\ err' = "KeyError"
                            /\ pc' = "idle"
                            /\ UNCHANGED <<mailVars, todo, num_msg_changed, commits>>
                       ELSE /\ todo' = Tail(todo)
                            /\ UNCHANGED <<pc, err>>
                            /\ IF st.removed_attachments > 0
                               THEN /\ num_msg_changed' = num_msg_changed + 1
                                    /\ log' = st.log \o
                                         << Ev("cb_write", 0, 0, 0, msg_sbj, <<>>),
                                            Ev(CommitOp(replace), gmail_id, 0, 0, label,
                                               IF replace THEN TrashName ELSE <<>>) >>
                                    /\ next_id' = next_id + 1
                                    /\ commits' = commits \cup { <<gmail_id, syncs_left>> }
                                    /\ IF replace
                                       THEN /\ inbox' = SelectSeq(inbox, LAMBDA m : m.id # gmail_id)
                                            /\ trash' = Append(trash, changed)
                                       ELSE /\ inbox' = Append(inbox, changed)
                                            /\ UNCHANGED trash
                               ELSE /\ log' = st.log
                                    /\ UNCHANGED <<mailVars, num_msg_changed, commits>>
    /\ UNCHANGED <<confVars, connected, files, faults, written, mapping, has_mapping, planVars,
                   extractVars, label, call, ret, late_deletes, countVars>>

\* line 251
SyncReturn ==
    /\ pc = "sync"
    /\ todo = <<>>
    /\ pc' = "idle"
    /\ ret' = <<num_attch_removed, num_msg_changed>>
    /\ UNCHANGED <<confVars, connected, mailVars, files, faults, written, mapping, has_mapping,
                   planVars, extractVars, syncVars, call, err, log, removes, commits, late_deletes, countVars>>

Next ==
    \/ Construct \/ Connect
    \/ ExtractBegin \/ ExtractSearch \/ ExtractMessage
    \/ DeleteFile \/ CheckDeletions
    \/ SyncBegin \/ SyncGroup \/ SyncReturn

Spec == Init /\ [][Next]_vars

NextPaging == Construct \/ Connect \/ ExtractBegin \/ ExtractSearch \/ ExtractMessage

SpecPaging == InitPaging /\ [][NextPaging]_vars

\* extract on a file system whose writes may fail
SpecFaults == InitFaults /\ [][NextPaging]_vars

\* extract over attachments of every type
SpecMimes == InitMimes /\ [][NextPaging]_vars

\* the engine's whole life with repeated extracts
SpecAgain == InitAgain /\ [][Next]_vars

NextDrift == Next \/ RemoteDrop

\* the engine's whole life on a mailbox that changes under it
SpecDrift == InitDrift /\ [][NextDrift]_vars

\* ===================================================================
\* Properties
\* ===================================================================
LogOps(op) == SelectSeq(log, LAMBDA e : e.op = op)

\* the matching messages extract has processed so far
Processed == SubSeq(SelectSeq(inbox, HasAttachment), 1, num_messages)

Images(msg) == { i \in 1..Len(msg.atts) : IsImage(msg.atts[i]) }

RECURSIVE NumImages(_)
NumImages(msgs) ==
    IF msgs = <<>> THEN 0 ELSE Cardinality(Images(Head(msgs))) + NumImages(Tail(msgs))

ExtractReturned == pc = "idle" /\ call = "extract" /\ err = ""

SyncReturned == pc = "idle" /\ call = "sync" /\ err = "" /\ ret # <<>>

SyncEnded == pc = "idle" /\ call = "sync"

\* C1: a remove operation is issued at most once for any remote attachment,
\* whatever the sequence of extract, deletions, check_deletions and sync
C1_RemoveAtMostOnce == \A k \in DOMAIN removes : removes[k] <= 1

\* C2: when extract returns after processing N attachments of an allowed
\* type, the mapping has N entries, N is returned, every key is a file of
\* dest, and every entry holds the message id and the hash of the
\* attachment written under its name
C2_MappingComplete ==
    ExtractReturned =>
        LET N == NumImages(Processed)
            writes == LogOps("write")
        IN  /\ Len(mapping) = N
            /\ ret = <<N>>
            /\ Len(writes) = N
            /\ DictKeys(mapping) \subseteq files
            /\ \A i \in 1..Len(mapping) :
                 \E j \in 1..Len(writes), m \in Range(Processed) :
                    /\ writes[j].t = mapping[i].key
                    /\ \A k \in 1..Len(writes) : writes[k].t = writes[j].t => k = j
                    /\ m.id = writes[j].gid
                    /\ mapping[i].gmail_id = m.id
                    /\ writes[j].y \in Images(m)
                    /\ mapping[i].hash = sha1(m.atts[writes[j].y])

\* C2's case: an extract returned after writing, for two messages, two
\* images of one sanitized name
C2_Witness ==
    /\ ExtractReturned
    /\ Len(mapping) >= 2
    /\ \E i, j \in 1..Len(mapping) :
         /\ i # j
         /\ mapping[j].key = Suffixed(mapping[i].key, 1)
         /\ mapping[i].gmail_id # mapping[j].gmail_id

\* the indexes of the mapping entries whose file is absent from dest
Absent == { i \in 1..Len(mapping) : mapping[i].key \notin files }

AbsentOf(gmail_id) == { i \in Absent : mapping[i].gmail_id = gmail_id }

Fetches(gmail_id) == SelectSeq(log, LAMBDA e : e.op = "fetch" /\ e.gid = gmail_id)

RemovesOf(gmail_id) == SelectSeq(log, LAMBDA e : e.op = "remove" /\ e.gid = gmail_id)

OkRemoves == SelectSeq(log, LAMBDA e : e.op = "remove" /\ e.y = 1)

CommitsOf(gmail_id) ==
    SelectSeq(log, LAMBDA e : e.op \in {"save", "save_copy"} /\ e.gid = gmail_id)

RECURSIVE TotalHashes(_)
TotalHashes(plan) ==
    IF plan = <<>> THEN 0 ELSE Len(Head(plan).hashes) + TotalHashes(Tail(plan))

PlanIsCurrent ==
    /\ has_mapping
    /\ to_delete = check_deletions(mapping, files).to_delete

\* C3: the plan holds each message id at most once, an id's entry lists the
\* hash of every mapping entry of that id whose file is absent, and a sync
\* over the plan fetches each message id of the plan exactly once
C3_GroupedAndFetchedOnce ==
    /\ \A i, j \in 1..Len(to_delete) : to_delete[i].key = to_delete[j].key => i = j
    /\ (call = "check_deletions" /\ err = "") =>
          /\ { to_delete[i].key : i \in 1..Len(to_delete) }
                = { mapping[i].gmail_id : i \in Absent }
          /\ \A i \in 1..Len(to_delete) :
                /\ Len(to_delete[i].hashes) = Cardinality(AbsentOf(to_delete[i].key))
                /\ \A k \in AbsentOf(to_delete[i].key) :
                      mapping[k].hash \in Range(to_delete[i].hashes)
    /\ (SyncEnded /\ connected) =>
          \A i \in 1..Len(to_delete) : Len(Fetches(to_delete[i].key)) = 1

\* C4: check_deletions returns the number K of mapping entries whose file
\* is absent, its plan's pending hashes total K, and a second call with no
\* change of dest in between leaves the plan and the count as they were
C4_CountsAndIdempotent ==
    /\ [] ((call = "check_deletions" /\ err = "") =>
              /\ ret = << Cardinality(Absent) >>
              /\ num_deletions = Cardinality(Absent)
              /\ TotalHashes(to_delete) = Cardinality(Absent))
    /\ [][ (call = "check_deletions" /\ err = "" /\ call' = "check_deletions") =>
              /\ to_delete' = to_delete
              /\ to_delete_subjects' = to_delete_subjects
              /\ num_deletions' = num_deletions
              /\ ret' = ret ]_vars

\* C4's case: check_deletions found some but not all files of the mapping
\* absent, two of them of one message
C4_Witness ==
    /\ call = "check_deletions" /\ err = ""
    /\ ret = <<2>>
    /\ Len(mapping) > 2
    /\ Len(to_delete) = 1

\* C5: when sync returns, its first value is the number of remove
\* operations that reported success and its second the number of messages
\* with a successful removal; a message whose removals all failed is neither
\* saved nor saved as a copy
C5_ReturnCounts ==
    SyncReturned =>
        /\ ret[1] = Len(OkRemoves)
        /\ ret[2] = Cardinality({ OkRemoves[i].gid : i \in 1..Len(OkRemoves) })
        /\ \A i \in 1..Len(to_delete) :
              LET g == to_delete[i].key
              IN  (\A k \in 1..Len(RemovesOf(g)) : RemovesOf(g)[k].y = 0) =>
                     CommitsOf(g) = <<>>

\* C5's case: a sync returned after one message's removal succeeded and
\* another message's removal failed
C5_Witness ==
    /\ SyncReturned
    /\ ret = <<1, 1>>
    /\ Len(to_delete) = 2
    /\ Len(LogOps("remove")) = 2

\* the message whose group raised, if one did
Aborted == IF err = "KeyError" THEN { log[Len(log)].gid } ELSE {}

\* C6: every message sync changes gets exactly one commit: with replace a
\* save into the trash folder with the label, never a save_copy; without
\* replace a save_copy with the label, never a save
C6_OneCommitPerChange ==
    call = "sync" =>
        /\ \A i \in 1..Len(OkRemoves) :
              OkRemoves[i].gid \notin Aborted => Len(CommitsOf(OkRemoves[i].gid)) = 1
        /\ \A i \in 1..Len(log) :
              /\ log[i].op = "save" => replace /\ log[i].s = label /\ log[i].t = TrashName
              /\ log[i].op = "save_copy" => ~replace /\ log[i].s = label

\* C6's case: a sync with replace set returned after changing two messages
C6_Witness ==
    /\ SyncReturned
    /\ replace
    /\ Len(LogOps("save")) = 2

\* the running or last sync computed the plan itself
PlannedItself == log # <<>> /\ log[1].op = "check_deletions"

\* C7: a sync with no check_deletions before it computes the plan itself,
\* once, and goes on from the state check_deletions followed by sync would
\* reach: the same plan to process, hence the same operations and counts
C7_LazyPlan ==
    /\ [][ (pc = "idle" /\ call' = "sync" /\ ~has_plan /\ has_mapping) =>
              LET plan == check_deletions(mapping, files)
              IN  /\ to_delete' = plan.to_delete
                  /\ to_delete_subjects' = plan.subjects
                  /\ num_deletions' = plan.num
                  /\ todo' = [i \in 1..Len(plan.to_delete) |-> plan.to_delete[i].key]
                  /\ pc' = "sync"
                  /\ Len(SelectSeq(log', LAMBDA e : e.op = "check_deletions")) = 1 ]_vars
    /\ [] ((SyncReturned /\ PlannedItself) =>
              /\ Len(LogOps("check_deletions")) = 1
              /\ { e.gid : e \in Range(LogOps("fetch")) }
                    = { mapping[i].gmail_id : i \in Absent }
              /\ Len(LogOps("remove")) = Cardinality(Absent)
              /\ Len(LogOps("fetch")) = Len(to_delete))

\* C7's case: a sync that computed the plan itself returned after removing
\* an attachment
C7_Witness ==
    /\ SyncReturned
    /\ PlannedItself
    /\ ret[1] >= 1

Matching == SelectSeq(inbox, HasAttachment)

\* C9: with a limit L below the batch size and at least L matching
\* messages, extract issues one search, of page size L at offset 0, and
\* processes L messages
C9_OnePageOfLimit ==
    (ExtractReturned /\ 0 < limit /\ limit < batch /\ Len(Matching) >= limit) =>
        /\ LogOps("search") = << Ev("search", 0, limit, 0, <<>>, <<>>) >>
        /\ num_messages = limit

\* C9's case: an extract returned with a limit below the batch size while
\* more messages than the limit match
C9_Witness ==
    /\ ExtractReturned
    /\ limit = 2 /\ batch = 3
    /\ Len(Matching) > limit
    /\ hit_limit

\* C10: extract never processes more than limit messages, and every message
\* it has processed, the one that reaches the limit too, has each image
\* attachment written and mapped
C10_LimitAfterMessage ==
    /\ limit > 0 => num_messages <= limit
    /\ hit_limit => num_messages = limit /\ pc = "idle"
    /\ (call = "extract" /\ has_mapping) =>
          \A k \in 1..Len(Processed) :
             \A i \in Images(Processed[k]) :
                \E w \in Range(LogOps("write")), j \in 1..Len(mapping) :
                   /\ w.gid = Processed[k].id /\ w.y = i
                   /\ mapping[j].key = w.t
                   /\ mapping[j].gmail_id = Processed[k].id
                   /\ mapping[j].hash = sha1(Processed[k].atts[i])
                   /\ w.t \in files

\* C10's case: the limit, no multiple of the page size, was reached on a
\* message of two images
C10_Witness ==
    /\ hit_limit
    /\ limit % per_page # 0
    /\ Cardinality(Images(Processed[num_messages])) = 2
    /\ Len(Matching) > limit

\* C12: constructing the engine with a dest that is no existing writable
\* directory fails with ValueError, and neither a connection nor any other
\* operation on the mailbox or the directory was issued before it or is
\* issued after it
C12_BadDestFails ==
    /\ ~dest_ok =>
          /\ pc \in {"new", "failed"}
          /\ ~connected
          /\ log = <<>>
          /\ files = {} /\ trash = <<>> /\ removes = <<>> /\ commits = {}
          /\ ~has_mapping /\ ~has_plan
    /\ (~dest_ok /\ pc # "new") => pc = "failed" /\ call = "__init__" /\ err = "ValueError"
    /\ pc = "failed" => ~dest_ok

\* C12's case: the constructor raised
C12_Witness == pc = "failed" /\ err = "ValueError"

\* the number of searches a paged walk over m messages issues: the full or
\* partial pages and the empty one
NumPages(m, p) == (m + p - 1) \div p + 1

\* C14: with no limit and a mailbox that does not change, extract searches
\* with one page size at offsets 0, p, 2p, ..., the last search alone is
\* empty, and every matching message was processed exactly once
C14_PagesCoverMailbox ==
    /\ (call = "extract" /\ limit = 0) => per_page = batch
    /\ (ExtractReturned /\ limit = 0) =>
          LET M == Len(Matching)
              n == NumPages(M, batch)
              writes == LogOps("write")
          IN  /\ LogOps("search") =
                    [k \in 1..n |-> Ev("search", 0, batch, (k - 1) * batch, <<>>, <<>>)]
              /\ \A k \in 1..n : (search(inbox, batch, (k - 1) * batch) = <<>>) <=> (k = n)
              /\ num_messages = M
              /\ Len(writes) = NumImages(Matching)
              /\ \A k \in 1..M :
                    \A i \in Images(Matching[k]) :
                       Cardinality({ j \in 1..Len(writes) :
                                        writes[j].gid = Matching[k].id /\ writes[j].y = i }) = 1

\* C14's case: an extract without limit returned after two pages of
\* messages, the second one partial, and the empty page
C14_Witness ==
    /\ ExtractReturned
    /\ limit = 0 /\ batch = 2
    /\ Len(Matching) = 3
    /\ Len(LogOps("search")) = 3
    /\ Len(LogOps("write")) > 3

\* extract's loop under the scheduling of a running Python call: a step
\* of the loop that can be taken is taken
SpecPagingFair ==
    /\ InitPaging
    /\ [][NextPaging]_vars
    /\ WF_vars(ExtractSearch)
    /\ WF_vars(ExtractMessage)

Extracting == pc \in {"extract_page", "extract_msgs"}

\* C15: for every finite mailbox and every batch size of at least 1 an
\* extract that was started ends, and when it returns either its last search
\* was empty or, with a limit set, the number of processed messages is the
\* limit
C15_ExtractTerminates ==
    /\ Extracting ~> (pc = "idle")
    /\ [] (ExtractReturned =>
              \/ /\ ~hit_limit
                 /\ search(inbox, per_page, offset) = <<>>
                 /\ LogOps("search")[Len(LogOps("search"))]
                       = Ev("search", 0, per_page, offset, <<>>, <<>>)
              \/ /\ hit_limit
                 /\ limit > 0
                 /\ num_messages = limit)

\* C15's case: an extract over a mailbox of several pages returned on the
\* empty page
C15_Witness ==
    /\ ExtractReturned
    /\ ~hit_limit
    /\ batch = 1
    /\ Len(Matching) = MaxPagingMsgs
    /\ Len(LogOps("search")) = MaxPagingMsgs + 1

WriteFailed == call = "extract" /\ err = "IOError"

\* C16: when a file write fails, extract raises at once: the failed
\* attachment's image event is the last entry of the log, no write follows
\* it, the mapping holds exactly the files written before, and every key of
\* the mapping is a file of dest
C16_WriteFailureAborts ==
    WriteFailed =>
        LET writes == LogOps("write")
            last == log[Len(log)]
        IN  /\ pc = "idle"
            /\ ret = <<>>
            /\ last.op = "cb_image"
            /\ last.t \notin DictKeys(mapping)
            /\ Len(mapping) = Len(writes)
            /\ DictKeys(mapping) = { writes[j].t : j \in 1..Len(writes) }
            /\ DictKeys(mapping) = written
            /\ DictKeys(mapping) \subseteq files
            /\ files \ DictKeys(mapping) \subseteq { last.t }
            /\ attachment_count = Len(writes)

\* C16's case: the write failed in the second message, after three files
\* were written, one of them of that message, on a file already created
C16_Witness ==
    /\ WriteFailed
    /\ Len(mapping) = 3
    /\ Cardinality(files) = 4
    /\ log[Len(log) - 1].gid = 2

\* the attachments of msg whose type is exactly an allowed one
Allowed(msg) == { i \in 1..Len(msg.atts) : msg.atts[i].type \in ATTACHMENT_MIMES }

RECURSIVE NumAllowed(_)
NumAllowed(msgs) ==
    IF msgs = <<>> THEN 0 ELSE Cardinality(Allowed(Head(msgs))) + NumAllowed(Tail(msgs))

\* C17: an attachment whose type is not exactly an allowed one gets no file
\* write, no mapping entry, no image event and no increment of the count,
\* and the allowed attachments of the same message, before and after it,
\* are extracted
C17_OtherTypesSkipped ==
    (call = "extract" /\ has_mapping) =>
        LET writes == LogOps("write")
            N == NumAllowed(Processed)
        IN  /\ \A j \in 1..Len(writes) :
                  \E m \in Range(Processed) :
                     m.id = writes[j].gid /\ writes[j].y \in Allowed(m)
            /\ Len(writes) = N
            /\ Len(LogOps("cb_image")) = N
            /\ Len(mapping) = N
            /\ Cardinality(files) = N
            /\ attachment_count = N
            /\ ExtractReturned => ret = <<N>>
            /\ \A k \in 1..Len(Processed) :
                  \A i \in Allowed(Processed[k]) :
                     \E j \in 1..Len(writes), e \in 1..Len(mapping) :
                        /\ writes[j].gid = Processed[k].id /\ writes[j].y = i
                        /\ mapping[e].key = writes[j].t
                        /\ mapping[e].gmail_id = Processed[k].id

\* C17's case: an extract returned after a message whose first attachment
\* has a near type and whose second is an allowed image, and a message of
\* attachments of other types only
C17_Witness ==
    /\ ExtractReturned
    /\ num_messages = 2
    /\ \E m \in Range(Processed) :
          /\ Len(m.atts) = 2
          /\ m.atts[1].type = "image/png; charset=binary"
          /\ m.atts[2].type = "image/png"
    /\ \E m \in Range(Processed) : Allowed(m) = {} /\ m.atts[1].type = "IMAGE/PNG"
    /\ ret = <<1>>

\* the positions of the log that hold operation op
At(op) == { i \in 1..Len(log) : log[i].op = op }

\* the position of the log where the group of the entry at i starts: the
\* last fetch event at or before i
GroupStart(i) == CHOOSE k \in At("cb_fetch") : k <= i /\ \A h \in At("cb_fetch") : h <= i => h <= k

\* C18: in sync every fetch is directly preceded by a fetch event with the
\* subject and the number of pending hashes of its plan entry, one per plan
\* entry processed; a write event is emitted for exactly the messages with a
\* successful removal, after the message's removals and directly before its
\* commit
C18_SyncEvents ==
    call = "sync" =>
        /\ \A i \in At("fetch") :
              /\ i > 1
              /\ log[i - 1] = Ev("cb_fetch", 0,
                                  Len(DictGet(to_delete, log[i].gid).hashes), 0,
                                  DictGet(to_delete_subjects, log[i].gid).subject, <<>>)
        /\ \A i \in At("cb_fetch") :
              connected => (i < Len(log) /\ log[i + 1].op = "fetch")
        /\ Len(LogOps("cb_fetch")) = Len(to_delete) - Len(todo) + (IF err # "" /\ todo # <<>> THEN 1 ELSE 0)
        /\ \A i \in At("cb_write") :
              /\ i < Len(log)
              /\ log[i + 1].op \in {"save", "save_copy"}
              /\ log[i - 1].op = "remove"
              /\ log[i].s = DictGet(to_delete_subjects, log[i + 1].gid).subject
              /\ \E r \in At("remove") :
                    r > GroupStart(i) /\ log[r].gid = log[i + 1].gid /\ log[r].y = 1
              /\ \A r \in At("remove") : log[r].gid = log[i + 1].gid => r < i
        /\ \A i \in At("save") \cup At("save_copy") : log[i - 1].op = "cb_write"
        /\ \A r \in At("remove") :
              (log[r].y = 1 /\ err # "KeyError") =>
                 \E i \in At("cb_write") :
                    /\ GroupStart(i) = GroupStart(r)
                    /\ r < i
                    /\ log[i + 1].gid = log[r].gid
        /\ Len(LogOps("cb_write")) =
              Cardinality({ GroupStart(r) : r \in { q \in At("remove") : log[q].y = 1 } })

\* C18's case: a sync returned after a message whose removal succeeded,
\* which got its write event and commit, and a message whose removal failed,
\* which got neither
C18_Witness ==
    /\ SyncReturned
    /\ Len(LogOps("cb_fetch")) = 2
    /\ Len(LogOps("cb_write")) = 1
    /\ Len(LogOps("remove")) = 2
    /\ log[Len(log)].op = "remove"
    /\ log[Len(log)].y = 0

\* C19: in extract every search is directly preceded by a message event
\* whose index is the search's offset plus 1, and every file write is
\* directly preceded by an image event with the attachment's own name and
\* the disk name, which is the key of the attachment's mapping entry
C19_ExtractEvents ==
    call = "extract" =>
        /\ \A i \in At("search") :
              /\ i > 1
              /\ log[i - 1] = Ev("cb_message", 0, log[i].y + 1, 0, <<>>, <<>>)
        /\ \A i \in At("cb_message") :
              connected => (i < Len(log) /\ log[i + 1].op = "search")
        /\ \A i \in At("write") :
              /\ i > 1
              /\ log[i - 1].op = "cb_image"
              /\ log[i - 1].t = log[i].t
              /\ \E m \in Range(Matching) :
                    /\ m.id = log[i].gid
                    /\ log[i - 1].s = m.atts[log[i].y].name
                    /\ \E e \in 1..Len(mapping) :
                          /\ mapping[e].key = log[i].t
                          /\ mapping[e].gmail_id = m.id
                          /\ mapping[e].hash = sha1(m.atts[log[i].y])
        /\ Len(LogOps("cb_image")) = Len(LogOps("write")) + (IF err = "IOError" THEN 1 ELSE 0)

\* C19's case: an extract returned after three searches and the write of
\* two files whose names differ by the suffix that makes the second unique
C19_Witness ==
    /\ ExtractReturned
    /\ Len(LogOps("search")) = 3
    /\ log[Len(log)].y = 2 * per_page
    /\ \E i, j \in At("cb_image") :
          /\ log[i].s = log[j].s
          /\ log[j].t = Suffixed(log[i].t, 1)

\* C13: in every state the mapping has an entry for every file extract has
\* written, in this call or an earlier one, and for no other file
C13_MappingCoversWritten ==
    /\ has_mapping => DictKeys(mapping) = written
    /\ ~has_mapping => written = {}

\* C20: whatever the sequence of extract, deletions, check_deletions and
\* sync, every attachment a sync removes is that of an entry of the current
\* mapping (same message id, same hash) whose file is absent from dest
C20_RemovesOnlyAbsent ==
    call = "sync" =>
        \A i \in 1..Len(to_delete) :
            LET g == to_delete[i].key
            IN  \A k \in 1..Len(RemovesOf(g)) :
                   \E e \in 1..Len(mapping) :
                      /\ mapping[e].gmail_id = g
                      /\ mapping[e].hash = to_delete[i].hashes[k]
                      /\ mapping[e].key \notin files

\* the plan's hashes for message id g
PlanHashes(g) == DictGet(to_delete, g).hashes

\* the plan entries the running or last sync has gone through without
\* raising
DoneGroups == { to_delete[i].key : i \in 1..Len(to_delete) } \ Range(todo)

\* C11: when a pending hash is not among the attachments of the refetched
\* message, sync raises in that group: the hash is not skipped, nothing is
\* issued after the failed lookup, and the message gets neither a save nor a
\* save_copy, whatever was removed from it before.  A group that sync went
\* through had a removal issued for every one of its hashes.
C11_MissingHashRaises ==
    /\ (call = "sync" /\ err = "KeyError") =>
          LET g == Head(todo)
              n == Len(RemovesOf(g))
              msg == fetch_gm_id(inbox, g)[1]
              last == log[Len(log)]
          IN  /\ pc = "idle"
              /\ ret = <<>>
              /\ n < Len(PlanHashes(g))
              /\ AttachHashes(msg, PlanHashes(g)[n + 1]) = 0
              /\ \A k \in 1..n : AttachHashes(msg, PlanHashes(g)[k]) # 0
              /\ last.gid = g
              /\ last.op = IF n = 0 THEN "fetch" ELSE "remove"
              /\ CommitsOf(g) = <<>>
              /\ \E m \in Range(inbox) : m.id = g
    /\ call = "sync" =>
          \A g \in DoneGroups :
             /\ Len(RemovesOf(g)) = Len(PlanHashes(g))
             /\ Len(Fetches(g)) = 1

\* C11's case: sync raised on the second hash of a group after the removal
\* of the first hash had succeeded
C11_Witness ==
    /\ call = "sync" /\ err = "KeyError"
    /\ Len(PlanHashes(Head(todo))) = 2
    /\ Len(OkRemoves) = 1
    /\ log[Len(log)].op = "remove"
    /\ log[Len(log)].y = 1

=============================================================================
